---- MODULE Spec2Model ----
(***************************************************************************)
(* Model of get_can (python-interfaces/can_dbc_reader.py): the line loop   *)
(* that builds the can_db lookup table from a DBC text file.               *)
(*                                                                         *)
(* A line of the file is a sequence of one-character strings, a token is   *)
(* the same, so that str.split, str.replace, int and ast.literal_eval are  *)
(* computed on the text as the interpreter computes them.                  *)
(*                                                                         *)
(* The assignments of lines 66-67 and 81-82 of the source are written with *)
(* the dictionary display on the line after the "=", which the interpreter *)
(* rejects; the model reads them as the single assignment statements they  *)
(* are laid out to be.                                                     *)
(***************************************************************************)
EXTENDS Integers, Sequences, FiniteSets, TLC

\* Longest file the model reads, in lines.
MaxLines == 5

----------------------------------------------------------------------------
(* Text primitives *)

Whitespace == {" ", "\t", "\n"}

Digits == {"0", "1", "2", "3", "4", "5", "6", "7", "8", "9"}

Letters == {"A", "B", "C", "E", "H", "P", "Q", "d", "e", "f", "s", "x"}

DigitVal(c) ==
    CASE c = "0" -> 0 [] c = "1" -> 1 [] c = "2" -> 2 [] c = "3" -> 3
      [] c = "4" -> 4 [] c = "5" -> 5 [] c = "6" -> 6 [] c = "7" -> 7
      [] c = "8" -> 8 [] c = "9" -> 9

\* s.split(): the maximal runs of non-whitespace characters, in order.
RECURSIVE split_ws(_, _, _)
split_ws(s, cur, acc) ==
    IF s = <<>>
    THEN IF cur = <<>> THEN acc ELSE Append(acc, cur)
    ELSE IF Head(s) \in Whitespace
         THEN split_ws(Tail(s), <<>>, IF cur = <<>> THEN acc ELSE Append(acc, cur))
         ELSE split_ws(Tail(s), Append(cur, Head(s)), acc)

split(s) == split_ws(s, <<>>, <<>>)

\* s.split(sep) for a one-character sep: always at least one part, empty
\* parts kept.
RECURSIVE split_on(_, _, _, _)
split_on(s, sep, cur, acc) ==
    IF s = <<>>
    THEN Append(acc, cur)
    ELSE IF Head(s) = sep
         THEN split_on(Tail(s), sep, <<>>, Append(acc, cur))
         ELSE split_on(Tail(s), sep, Append(cur, Head(s)), acc)

split_sep(s, sep) == split_on(s, sep, <<>>, <<>>)

\* s.replace(old, new) for a one-character old; new is a text, possibly empty.
RECURSIVE replace(_, _, _)
replace(s, old, new) ==
    IF s = <<>>
    THEN <<>>
    ELSE (IF Head(s) = old THEN new ELSE <<Head(s)>>) \o replace(Tail(s), old, new)

IsDigits(s) == Len(s) > 0 /\ \A i \in 1..Len(s) : s[i] \in Digits

RECURSIVE DecVal(_)
DecVal(s) ==
    IF s = <<>> THEN 0
    ELSE DecVal(SubSeq(s, 1, Len(s) - 1)) * 10 + DigitVal(s[Len(s)])

RECURSIVE Pow10(_)
Pow10(n) == IF n = 0 THEN 1 ELSE 10 * Pow10(n - 1)

RECURSIVE GCD(_, _)
GCD(a, b) == IF b = 0 THEN a ELSE GCD(b, a % b)

Signed(s) == s # <<>> /\ Head(s) \in {"+", "-"}

Unsigned(s) == IF Signed(s) THEN Tail(s) ELSE s

Sign(s) == IF s # <<>> /\ Head(s) = "-" THEN -1 ELSE 1

\* Outcome of an expression: the exception it raises ("none" if it returns)
\* and the value it returns.
Returned(v) == [exc |-> "none", val |-> v]

Raised(e) == [exc |-> e, val |-> 0]

\* int(s) for a token s: optional sign, decimal digits; ValueError otherwise.
int(s) ==
    IF IsDigits(Unsigned(s))
    THEN Returned(Sign(s) * DecVal(Unsigned(s)))
    ELSE Raised("ValueError")

\* Python values ast.literal_eval returns for the literals of the model.
PyInt(n) == [type |-> "int", num |-> n, den |-> 1, text |-> <<>>]

PyFloat(n, d) ==
    LET g == GCD(IF n < 0 THEN -n ELSE n, d)
    IN  [type |-> "float", num |-> n \div g, den |-> d \div g, text |-> <<>>]

PyStr(t) == [type |-> "str", num |-> 0, den |-> 1, text |-> t]

PyList(t) == [type |-> "list", num |-> 0, den |-> 1, text |-> t]

IsIntLiteral(s) ==
    /\ IsDigits(s)
    /\ (Len(s) > 1 /\ s[1] = "0") => \A i \in 1..Len(s) : s[i] = "0"

IsFloatLiteral(s) ==
    LET parts == split_sep(s, ".")
    IN  /\ Len(parts) = 2
        /\ parts[1] \o parts[2] # <<>>
        /\ IsDigits(parts[1] \o parts[2])

FloatVal(s) ==
    LET parts == split_sep(s, ".")
    IN  [num |-> DecVal(parts[1] \o parts[2]), den |-> Pow10(Len(parts[2]))]

IsStrLiteral(s) ==
    /\ Len(s) >= 2
    /\ s[1] \in {"\"", "'"}
    /\ s[Len(s)] = s[1]
    /\ \A i \in 2..(Len(s) - 1) : s[i] # s[1] /\ s[i] # "\\"

IsName(s) == Len(s) > 0 /\ s[1] \in Letters /\ \A i \in 1..Len(s) : s[i] \in Letters \cup Digits

\* ast.literal_eval(s) for a token s: a number (optionally signed), a quoted
\* string or a list display evaluates to its value; a bare name is a
\* malformed node (ValueError); anything else does not parse (SyntaxError).
RECURSIVE literal_eval(_)
literal_eval(s) ==
    IF IsIntLiteral(s) THEN Returned(PyInt(DecVal(s)))
    ELSE IF IsFloatLiteral(s) THEN Returned(PyFloat(FloatVal(s).num, FloatVal(s).den))
    ELSE IF Signed(s) /\ IsIntLiteral(Tail(s))
         THEN Returned(PyInt(Sign(s) * DecVal(Tail(s))))
    ELSE IF Signed(s) /\ IsFloatLiteral(Tail(s))
         THEN Returned(PyFloat(Sign(s) * FloatVal(Tail(s)).num, FloatVal(Tail(s)).den))
    ELSE IF IsStrLiteral(s) THEN Returned(PyStr(SubSeq(s, 2, Len(s) - 1)))
    ELSE IF Len(s) >= 2 /\ s[1] = "[" /\ s[Len(s)] = "]"
         THEN LET inner == SubSeq(s, 2, Len(s) - 1)
              IN  IF inner = <<>> \/ literal_eval(inner).exc = "none"
                  THEN Returned(PyList(inner))
                  ELSE Raised(literal_eval(inner).exc)
    ELSE IF IsName(s) THEN Raised("ValueError")
    ELSE Raised("SyntaxError")

----------------------------------------------------------------------------
(* The input: lines of a DBC file, each ended by its newline *)

Join(toks) ==
    LET RECURSIVE J(_)
        J(i) == IF i > Len(toks) THEN <<"\n">>
                ELSE IF i = 1 THEN toks[1] \o J(2)
                ELSE <<" ">> \o toks[i] \o J(i + 1)
    IN  J(1)

BO == <<"B", "O", "_">>

SG == <<"S", "G", "_">>

\* "BO_ <id> <genus>: <frame_bytes> <family>"
MessageLine(id, genus, bytes, family) ==
    Join(<<BO, id, genus \o <<":">>, bytes, family>>)

\* " SG_ <name> : <end_bit><sep><length> (<factor>,<offset>) [<min>|<max>] <description>"
SignalLine(name, bits, factor, offset, min, max, desc) ==
    <<" ">> \o Join(<<SG, name, <<":">>, bits,
                      <<"(">> \o factor \o <<",">> \o offset \o <<")">>,
                      <<"[">> \o min \o <<"|">> \o max \o <<"]">>,
                      desc>>)

BlankLines == { <<" ", "\t", "\n">> }

MessageLines ==
    { MessageLine(<<"1", "0", "0">>, <<"E">>, <<"8">>, <<"P">>),
      MessageLine(<<"2", "0", "0">>, <<"B">>, <<"4">>, <<"C">>),
      MessageLine(<<"0", "1", "0", "0">>, <<"H">>, <<"2">>, <<"Q">>),
      MessageLine(<<"1", "x">>, <<"E">>, <<"8">>, <<"P">>),
      MessageLine(<<"1", "0", "0">>, <<"E">>, <<"[", "8", "]">>, <<"P">>),
      Join(<<BO, <<"1", "0", "0">>, <<"E", ":">> >>),
      Join(<<BO, <<"1", "0", "0">>, <<"E", ":">>, <<"8">> >>) }

SignalLines ==
    { SignalLine(<<"A">>, <<"7", "|", "8">>, <<"1">>, <<"-", "4", "0">>, <<"0">>, <<"1">>, <<"d">>),
      SignalLine(<<"B">>, <<"1", "5", "@", "1", "6">>, <<"0", ".", "1">>, <<"0">>, <<"0">>, <<"9">>, <<"e">>),
      SignalLine(<<"A">>, <<"3", "|", "4">>, <<"2">>, <<"5">>, <<"1">>, <<"2">>, <<"f">>),
      SignalLine(<<"A">>, <<"7", "|", "0">>, <<"1">>, <<"0">>, <<"0">>, <<"1">>, <<"d">>),
      SignalLine(<<"A">>, <<"7", "|", "-", "3">>, <<"1">>, <<"0">>, <<"0">>, <<"1">>, <<"d">>),
      SignalLine(<<"A">>, <<"7", "|", "8">>, <<"\"", "s", "\"">>, <<"0">>, <<"0">>, <<"1">>, <<"d">>),
      SignalLine(<<"A">>, <<"7", "|", "8">>, <<"1">>, <<"[", "1", "]">>, <<"0">>, <<"1">>, <<"d">>),
      SignalLine(<<"A">>, <<"7", "|", "8">>, <<"1">>, <<"0">>, <<"0">>, <<"\"", "s", "\"">>, <<"d">>),
      SignalLine(<<"A">>, <<"7", "|", "8">>, <<"x">>, <<"0">>, <<"0">>, <<"1">>, <<"d">>),
      SignalLine(<<"A">>, <<"7", "8">>, <<"1">>, <<"0">>, <<"0">>, <<"1">>, <<"d">>),
      SignalLine(<<"A">>, <<"x", "|", "8">>, <<"1">>, <<"0">>, <<"0">>, <<"1">>, <<"d">>),
      SignalLine(<<"A">>, <<"7", "@", "x">>, <<"1">>, <<"0">>, <<"0">>, <<"1">>, <<"d">>),
      <<" ">> \o Join(<<SG, <<"A">>, <<":">> >>),
      Join(<<SG, <<"A">>, <<":">>, <<"7", "|", "8">>, <<"(", "1", ",", "0", ")">>, <<"[", "0", "|", "1", "]">> >>) }

OtherLines == { Join(<< <<"V", "A", "L", "_">>, <<"1", "0", "0">>, <<"A">> >>) }

\* The lines a file of the model is made of.
Lines == BlankLines \cup MessageLines \cup SignalLines \cup OtherLines

\* line.split() of every line of the model, computed once.
line_arrays == [l \in Lines |-> split(l)]

----------------------------------------------------------------------------
(* get_can *)

VARIABLES
    can_db,      \* the lookup table: arbitration id -> message definition
    Flag,        \* a message is open
    current_BO,  \* the local current_BO: unbound, None or an arbitration id
    pc,          \* "loop", "returned" or "raised"
    exc,         \* the exception that left get_can, "none" if none did
    ret,         \* <<>> until get_can returns, then <<the returned can_db>>
    n,           \* history: the number of lines read from the file
    line,        \* history: the last line read
    prev,        \* history: can_db, Flag, current_BO and open before the last line
    open,        \* history: <<id>> of the last BO_ line if no blank line
                 \*          followed it, else <<>>
    bo_ids,      \* history: the arbitration ids of the BO_ lines processed
    dbc_file,    \* the lines of the file, where a specification fixes them in
                 \* advance (FileSpec); <<>> where lines arrive one at a time
    field,       \* a bit-range field given to the SG_ branch (BitRangeSpec)
    parsed       \* <<>>, then <<what the SG_ branch makes of field>>

vars == <<can_db, Flag, current_BO, pc, exc, ret, n, line, prev, open, bo_ids,
          dbc_file, field, parsed>>

\* The variables the line loop of Spec leaves alone.
aux == <<dbc_file, field, parsed>>

NoField == [end_bit |-> 0, sep |-> "|", length |-> 0]

Unbound == [state |-> "unbound", id |-> 0]

None == [state |-> "None", id |-> 0]

Id(i) == [state |-> "int", id |-> i]

\* d[k] = v on a dictionary d.
Put(d, k, v) == [x \in (DOMAIN d) \cup {k} |-> IF x = k THEN v ELSE d[x]]

EmptyDict == <<>>

\* s[:-1]
DropLast(s) == IF s = <<>> THEN <<>> ELSE SubSeq(s, 1, Len(s) - 1)

\* The branch conditions of the loop body, in the order the if/elif chain
\* tests them.
IsBlank(line_array) == Len(line_array) = 0

\* Mutant of IsSignalEntry: the branch is taken whether or not a message is open.
IsSignalEntry_IgnoreFlag(flag, line_array) ==
    /\ ~IsBlank(line_array)
    /\ line_array[1] = SG

IsSignalEntry(flag, line_array) ==
    /\ ~IsBlank(line_array)
    /\ flag
    /\ line_array[1] = SG

IsMessageStart(flag, line_array) ==
    /\ ~IsBlank(line_array)
    /\ ~IsSignalEntry(flag, line_array)
    /\ line_array[1] = BO

IsOther(flag, line_array) ==
    /\ ~IsBlank(line_array)
    /\ ~IsSignalEntry(flag, line_array)
    /\ ~IsMessageStart(flag, line_array)

\* Mutant of SignalLength: the length is read from the part before the
\* separator.
SignalLength_First(split_range) == int(split_range[1])

\* Mutant of SignalLength: a length that is no integer is taken to be 1.
SignalLength_Default(split_range) ==
    IF int(split_range[2]).exc # "none" THEN Returned(1) ELSE int(split_range[2])

\* The length stored for an SG_ line: int() of the text after the separator.
SignalLength(split_range) == int(split_range[2])

\* Mutant of SignalDefinition: a line without a description token gets an
\* empty description.
SignalDefinition_NoDescription(line_array) ==
    IF Len(line_array) < 6 THEN Raised("IndexError")
    ELSE
    LET split_range == split_sep(replace(line_array[4], "@", <<"|">>), "|")
        factor_offset ==
            split_sep(replace(replace(line_array[5], "(", <<>>), ")", <<>>), ",")
        value_range ==
            split_sep(replace(replace(line_array[6], "[", <<>>), "]", <<>>), "|")
        end_bit == int(split_range[1])
        length  == int(split_range[2])
        factor  == literal_eval(factor_offset[1])
        offset  == literal_eval(factor_offset[2])
        minimum == literal_eval(value_range[1])
        maximum == literal_eval(value_range[2])
    IN  IF end_bit.exc # "none" THEN Raised(end_bit.exc)
        ELSE IF Len(split_range) < 2 THEN Raised("IndexError")
        ELSE IF length.exc # "none" THEN Raised(length.exc)
        ELSE IF factor.exc # "none" THEN Raised(factor.exc)
        ELSE IF Len(factor_offset) < 2 THEN Raised("IndexError")
        ELSE IF offset.exc # "none" THEN Raised(offset.exc)
        ELSE IF minimum.exc # "none" THEN Raised(minimum.exc)
        ELSE IF Len(value_range) < 2 THEN Raised("IndexError")
        ELSE IF maximum.exc # "none" THEN Raised(maximum.exc)
        ELSE Returned([end_bit     |-> end_bit.val,
                       length      |-> length.val,
                       factor      |-> factor.val,
                       offset      |-> offset.val,
                       minimum     |-> minimum.val,
                       maximum     |-> maximum.val,
                       description |-> IF Len(line_array) < 7 THEN <<>>
                                       ELSE line_array[7],
                       value       |-> "None"])

\* The right-hand side of the SG_ assignment: the signal's dictionary, or the
\* first exception its evaluation raises. line_array[i] of the source is
\* line_array[i + 1] here.
SignalDefinition(line_array) ==
    IF Len(line_array) < 6 THEN Raised("IndexError")
    ELSE
    LET split_range == split_sep(replace(line_array[4], "@", <<"|">>), "|")
        factor_offset ==
            split_sep(replace(replace(line_array[5], "(", <<>>), ")", <<>>), ",")
        value_range ==
            split_sep(replace(replace(line_array[6], "[", <<>>), "]", <<>>), "|")
        end_bit == int(split_range[1])
        length  == SignalLength(split_range)
        factor  == literal_eval(factor_offset[1])
        offset  == literal_eval(factor_offset[2])
        minimum == literal_eval(value_range[1])
        maximum == literal_eval(value_range[2])
    IN  IF end_bit.exc # "none" THEN Raised(end_bit.exc)
        ELSE IF Len(split_range) < 2 THEN Raised("IndexError")
        ELSE IF length.exc # "none" THEN Raised(length.exc)
        ELSE IF factor.exc # "none" THEN Raised(factor.exc)
        ELSE IF Len(factor_offset) < 2 THEN Raised("IndexError")
        ELSE IF offset.exc # "none" THEN Raised(offset.exc)
        ELSE IF minimum.exc # "none" THEN Raised(minimum.exc)
        ELSE IF Len(value_range) < 2 THEN Raised("IndexError")
        ELSE IF maximum.exc # "none" THEN Raised(maximum.exc)
        ELSE IF Len(line_array) < 7 THEN Raised("IndexError")
        ELSE Returned([end_bit     |-> end_bit.val,
                       length      |-> length.val,
                       factor      |-> factor.val,
                       offset      |-> offset.val,
                       minimum     |-> minimum.val,
                       maximum     |-> maximum.val,
                       description |-> line_array[7],
                       value       |-> "None"])

\* Mutant of StoreSignal: the signal goes to the message with the lowest id,
\* not to the one current_BO names.
StoreSignal_LowestId(db, cur, line_array) ==
    LET rhs == SignalDefinition(line_array)
        low == CHOOSE k \in DOMAIN db : \A j \in DOMAIN db : k <= j
    IN  IF rhs.exc # "none" THEN Raised(rhs.exc)
        ELSE IF cur.state = "unbound" THEN Raised("UnboundLocalError")
        ELSE IF cur.state = "None" \/ cur.id \notin DOMAIN db THEN Raised("KeyError")
        ELSE Returned(Put(db, low,
                          [db[low] EXCEPT
                              !.species = Put(@, line_array[2], rhs.val)]))

\* Mutant of StoreSignal: a name already in the mapping keeps its first
\* definition.
StoreSignal_KeepFirst(db, cur, line_array) ==
    LET rhs == SignalDefinition(line_array)
    IN  IF rhs.exc # "none" THEN Raised(rhs.exc)
        ELSE IF cur.state = "unbound" THEN Raised("UnboundLocalError")
        ELSE IF cur.state = "None" \/ cur.id \notin DOMAIN db THEN Raised("KeyError")
        ELSE IF line_array[2] \in DOMAIN db[cur.id].species THEN Returned(db)
        ELSE Returned(Put(db, cur.id,
                          [db[cur.id] EXCEPT
                              !.species = Put(@, line_array[2], rhs.val)]))

\* The SG_ assignment statement: the right-hand side first, then the target
\* can_db[current_BO]['species'][line_array[1]]. Returns the new can_db.
StoreSignal(db, cur, line_array) ==
    LET rhs == SignalDefinition(line_array)
    IN  IF rhs.exc # "none" THEN Raised(rhs.exc)
        ELSE IF cur.state = "unbound" THEN Raised("UnboundLocalError")
        ELSE IF cur.state = "None" \/ cur.id \notin DOMAIN db THEN Raised("KeyError")
        ELSE Returned(Put(db, cur.id,
                          [db[cur.id] EXCEPT
                              !.species = Put(@, line_array[2], rhs.val)]))

\* The right-hand side of the BO_ assignment.
MessageDefinition(line_array) ==
    IF Len(line_array) < 5 THEN Raised("IndexError")
    ELSE IF int(line_array[4]).exc # "none" THEN Raised(int(line_array[4]).exc)
    ELSE Returned([family      |-> line_array[5],
                   genus       |-> DropLast(line_array[3]),
                   species     |-> EmptyDict,
                   frame_bytes |-> int(line_array[4]).val])

\* Mutant of StoreMessage: an id already in can_db keeps the signals it has.
StoreMessage_KeepSpecies(db, line_array) ==
    LET rhs == MessageDefinition(line_array)
        key == int(line_array[2])
    IN  IF rhs.exc # "none" THEN Raised(rhs.exc)
        ELSE IF key.exc # "none" THEN Raised(key.exc)
        ELSE IF key.val \in DOMAIN db
             THEN Returned(Put(db, key.val,
                               [rhs.val EXCEPT !.species = db[key.val].species]))
        ELSE Returned(Put(db, key.val, rhs.val))

\* Mutant of StoreMessage: can_db is rebound to a table of the new message
\* alone.
StoreMessage_Rebind(db, line_array) ==
    LET rhs == MessageDefinition(line_array)
        key == int(line_array[2])
    IN  IF rhs.exc # "none" THEN Raised(rhs.exc)
        ELSE IF key.exc # "none" THEN Raised(key.exc)
        ELSE Returned(Put(EmptyDict, key.val, rhs.val))

\* The BO_ assignment statement: the right-hand side first, then the target
\* can_db[int(line_array[1])]. Returns the new can_db.
StoreMessage(db, line_array) ==
    LET rhs == MessageDefinition(line_array)
        key == int(line_array[2])
    IN  IF rhs.exc # "none" THEN Raised(rhs.exc)
        ELSE IF key.exc # "none" THEN Raised(key.exc)
        ELSE Returned(Put(db, key.val, rhs.val))

InitLocals ==
    /\ can_db = EmptyDict
    /\ Flag = FALSE
    /\ current_BO = Unbound
    /\ pc = "loop"
    /\ exc = "none"
    /\ ret = <<>>
    /\ n = 0
    /\ line = <<>>
    /\ prev = [can_db |-> EmptyDict, Flag |-> FALSE, current_BO |-> Unbound,
               open |-> <<>>]
    /\ open = <<>>
    /\ bo_ids = {}

Init ==
    /\ InitLocals
    /\ dbc_file = <<>>
    /\ field = NoField
    /\ parsed = <<>>

\* Mutant of NextLine: the loop is handed a line without the position in the
\* file moving on.
NextLine_Stay(l) ==
    /\ pc = "loop"
    /\ n < MaxLines
    /\ n' = n
    /\ line' = l
    /\ prev' = [can_db |-> can_db, Flag |-> Flag, current_BO |-> current_BO,
                open |-> open]
    /\ UNCHANGED aux

\* The for statement hands the next line of the file to the loop body.
NextLine(l) ==
    /\ pc = "loop"
    /\ n < MaxLines
    /\ n' = n + 1
    /\ line' = l
    /\ prev' = [can_db |-> can_db, Flag |-> Flag, current_BO |-> current_BO,
                open |-> open]
    /\ UNCHANGED aux

\* What the text of a line that was processed without error says about the
\* file, whatever branch the loop took for it: a line of whitespace closes the
\* open message, a line that starts with BO_ opens the message of its id.
Observe(l) ==
    LET toks == line_arrays[l]
    IN  IF toks = <<>>
        THEN open' = <<>> /\ UNCHANGED bo_ids
        ELSE IF toks[1] = BO
             THEN /\ open' = <<int(toks[2]).val>>
                  /\ bo_ids' = bo_ids \cup {int(toks[2]).val}
             ELSE UNCHANGED <<open, bo_ids>>

\* Mutant of Raise: the exception is swallowed and the table built so far is
\* returned.
Raise_ReturnPartial(e) ==
    /\ pc' = "returned"
    /\ exc' = e
    /\ ret' = <<can_db>>
    /\ UNCHANGED <<can_db, Flag, current_BO, open, bo_ids>>

\* An exception leaves get_can: nothing is returned.
Raise(e) ==
    /\ pc' = "raised"
    /\ exc' = e
    /\ UNCHANGED <<can_db, Flag, current_BO, ret, open, bo_ids>>

\* Mutant of BlankLine: current_BO is cleared and Flag is left as it is.
BlankLine_KeepFlag ==
    \E l \in Lines :
        /\ NextLine(l)
        /\ IsBlank(line_arrays[l])
        /\ current_BO' = None
        /\ Observe(l)
        /\ UNCHANGED <<can_db, Flag, pc, exc, ret>>

\* Mutant of BlankLine: the blank line leaves the message open.
BlankLine_KeepOpen ==
    \E l \in Lines :
        /\ NextLine(l)
        /\ IsBlank(line_arrays[l])
        /\ Observe(l)
        /\ UNCHANGED <<can_db, Flag, current_BO, pc, exc, ret>>

\* if len(line_array) == 0
BlankLine ==
    \E l \in Lines :
        /\ NextLine(l)
        /\ IsBlank(line_arrays[l])
        /\ Flag' = FALSE
        /\ current_BO' = None
        /\ Observe(l)
        /\ UNCHANGED <<can_db, pc, exc, ret>>

\* elif Flag and line_array[0] == 'SG_'
SignalEntry ==
    \E l \in Lines :
        /\ NextLine(l)
        /\ IsSignalEntry(Flag, line_arrays[l])
        /\ LET out == StoreSignal(can_db, current_BO, line_arrays[l])
           IN  IF out.exc # "none"
               THEN Raise(out.exc)
               ELSE /\ can_db' = out.val
                    /\ Observe(l)
                    /\ UNCHANGED <<Flag, current_BO, pc, exc, ret>>

\* elif line_array[0] == 'BO_'
MessageStart ==
    \E l \in Lines :
        /\ NextLine(l)
        /\ IsMessageStart(Flag, line_arrays[l])
        /\ LET out == StoreMessage(can_db, line_arrays[l])
           IN  IF out.exc # "none"
               THEN Raise(out.exc)
               ELSE /\ can_db' = out.val
                    /\ Flag' = TRUE
                    /\ current_BO' = Id(int(line_arrays[l][2]).val)
                    /\ Observe(l)
                    /\ UNCHANGED <<pc, exc, ret>>

\* Mutant of OtherLine: an unrecognized line closes the open message, as a
\* blank line does.
OtherLine_Close ==
    \E l \in Lines :
        /\ NextLine(l)
        /\ IsOther(Flag, line_arrays[l])
        /\ Flag' = FALSE
        /\ current_BO' = None
        /\ Observe(l)
        /\ UNCHANGED <<can_db, pc, exc, ret>>

\* else: pass
OtherLine ==
    \E l \in Lines :
        /\ NextLine(l)
        /\ IsOther(Flag, line_arrays[l])
        /\ Observe(l)
        /\ UNCHANGED <<can_db, Flag, current_BO, pc, exc, ret>>

\* The file is exhausted: the loop ends and get_can returns can_db.
EndOfFile ==
    /\ pc = "loop"
    /\ pc' = "returned"
    /\ ret' = <<can_db>>
    /\ UNCHANGED <<can_db, Flag, current_BO, exc, n, line, prev, open, bo_ids>>
    /\ UNCHANGED aux

Next == BlankLine \/ SignalEntry \/ MessageStart \/ OtherLine \/ EndOfFile

Spec == Init /\ [][Next]_vars

----------------------------------------------------------------------------
(* Vocabulary of the properties: the last line read, by its text *)

LineRead == n > 0

Toks == line_arrays[line]

IsBlankText == LineRead /\ Toks = <<>>

StartsWith(tok) == LineRead /\ Toks # <<>> /\ Toks[1] = tok

\* The last line read is an SG_ line met while a message was open.
SignalWhileOpen == StartsWith(SG) /\ prev.open # <<>>

\* The last line read is an SG_ line met while no message was open.
SignalWhileClosed == StartsWith(SG) /\ prev.open = <<>>

\* The last line read is an SG_ line all of whose fields evaluate.
WellFormedSignal == StartsWith(SG) /\ SignalDefinition(Toks).exc = "none"

\* The last line read is a BO_ line all of whose fields evaluate.
WellFormedMessage ==
    /\ StartsWith(BO)
    /\ MessageDefinition(Toks).exc = "none"
    /\ int(Toks[2]).exc = "none"

Unchanged ==
    /\ can_db = prev.can_db
    /\ Flag = prev.Flag
    /\ current_BO = prev.current_BO

----------------------------------------------------------------------------
(* C1 *)

----------------------------------------------------------------------------
(* C2 *)

\* The messages other than id are in db as they are in old.
OthersKept(db, old, id) ==
    /\ DOMAIN db \ {id} = DOMAIN old \ {id}
    /\ \A k \in DOMAIN db \ {id} : db[k] = old[k]

\* C2: an SG_ line processed while a message is open (a BO_ line precedes it
\* with no blank line in between) leaves every message other than the one the
\* most recent BO_ line opened unchanged, and, its fields evaluating, its
\* signal is in the signal mapping of that message under its name.
C2_SignalGoesToLastMessage ==
    SignalWhileOpen =>
        LET id == prev.open[1]
        IN  /\ OthersKept(can_db, prev.can_db, id)
            /\ WellFormedSignal =>
                   /\ pc # "raised"
                   /\ id \in DOMAIN can_db
                   /\ Toks[2] \in DOMAIN can_db[id].species
                   /\ can_db[id].species[Toks[2]] = SignalDefinition(Toks).val

\* Two messages, the older one with a signal of its own, and an SG_ line just
\* stored under the newer one.
C2_Witness ==
    /\ SignalWhileOpen
    /\ WellFormedSignal
    /\ prev.open = <<200>>
    /\ 100 \in DOMAIN can_db
    /\ can_db[100].species # EmptyDict
    /\ can_db[200] # prev.can_db[200]

----------------------------------------------------------------------------
(* C3 *)

\* C3: a BO_ line whose fields evaluate and whose arbitration id is already a
\* key of can_db replaces the entry: afterwards the entry has no signals,
\* carries the line's family, genus and frame_bytes, and is the open message.
C3_MessageReplaced ==
    (WellFormedMessage /\ int(Toks[2]).val \in DOMAIN prev.can_db) =>
        LET id == int(Toks[2]).val
        IN  /\ pc # "raised"
            /\ id \in DOMAIN can_db
            /\ can_db[id].species = EmptyDict
            /\ can_db[id].family = Toks[5]
            /\ can_db[id].genus = DropLast(Toks[3])
            /\ can_db[id].frame_bytes = int(Toks[4]).val
            /\ Flag
            /\ current_BO = Id(id)
            /\ open = <<id>>

\* The replaced entry had signals and another family.
C3_Witness ==
    /\ WellFormedMessage
    /\ int(Toks[2]).val \in DOMAIN prev.can_db
    /\ prev.can_db[int(Toks[2]).val].species # EmptyDict
    /\ prev.can_db[int(Toks[2]).val].family # Toks[5]
    /\ pc = "loop"

----------------------------------------------------------------------------
(* C4 *)

C4_State ==
    /\ pc \in {"loop", "returned", "raised"}
    /\ pc = "loop" => (ret = <<>> /\ exc = "none")
    /\ pc = "returned" => (ret = <<can_db>> /\ exc = "none")
    /\ pc = "raised" => (ret = <<>> /\ exc # "none")

C4_Step ==
    /\ pc # "loop" => UNCHANGED vars
    /\ pc' = "raised" => (n' = n + 1 /\ can_db' = can_db)

\* C4: the parse ends either returned, with the Database and no exception, or
\* raised, with an exception and no Database; while lines are being read
\* nothing has been returned; an exception is raised by the line being read
\* and leaves the table as it was; once the parse has returned or raised no
\* line is read and nothing changes.
C4_AllOrNothing == [](C4_State) /\ [][C4_Step]_vars

\* A line raised with messages already in the table, and nothing was returned.
C4_Witness ==
    /\ pc = "raised"
    /\ n > 2
    /\ can_db # EmptyDict
    /\ ret = <<>>

----------------------------------------------------------------------------
(* C5 *)

Range(f) == { f[i] : i \in DOMAIN f }

\* The text of a number: an optional sign, then digits with at most one point.
IsNumberText(s) == IsDigits(Unsigned(s)) \/ IsFloatLiteral(Unsigned(s))

\* The last line read is a BO_ line, or an SG_ line met while a message was
\* open, with all the tokens its type requires.
RecognizedLine ==
    \/ StartsWith(BO) /\ Len(Toks) >= 5
    \/ SignalWhileOpen /\ Len(Toks) >= 7

\* The arbitration-id and frame-byte texts of a BO_ line; the factor, offset,
\* minimum and maximum texts of an SG_ line.
NumericFields ==
    IF StartsWith(BO)
    THEN {Toks[2], Toks[4]}
    ELSE Range(split_sep(replace(replace(Toks[5], "(", <<>>), ")", <<>>), ","))
         \cup Range(split_sep(replace(replace(Toks[6], "[", <<>>), "]", <<>>), "|"))

\* C5: a recognized line with a numeric field whose text is not a number makes
\* the parse fail, and nothing is stored for the line.
C5_NonNumericFieldFails ==
    (RecognizedLine /\ \E s \in NumericFields : ~IsNumberText(s)) =>
        (pc = "raised" /\ can_db = prev.can_db)

----------------------------------------------------------------------------
(* C6 *)

\* C6: every signal stored under any message has length > 0.
C6_LengthPositive ==
    \A id \in DOMAIN can_db :
        \A name \in DOMAIN can_db[id].species :
            can_db[id].species[name].length > 0

----------------------------------------------------------------------------
(* C7 *)

\* C7: a blank line leaves can_db unchanged and raises nothing, and after it
\* no message is open: while no BO_ line has followed the last blank line (or
\* none was read yet) Flag is false, and an SG_ line leaves can_db unchanged.
C7_BlankClosesMessage ==
    /\ IsBlankText => (can_db = prev.can_db /\ pc # "raised" /\ open = <<>>)
    /\ open = <<>> => ~Flag
    /\ SignalWhileClosed => can_db = prev.can_db

\* An SG_ line after the blank line that closed a message with signals.
C7_Witness ==
    /\ SignalWhileClosed
    /\ \E id \in DOMAIN prev.can_db : prev.can_db[id].species # EmptyDict
    /\ pc = "loop"

----------------------------------------------------------------------------
(* C8 *)

\* The last line read is neither blank nor a BO_ nor an SG_ line.
IsOtherText == LineRead /\ Toks # <<>> /\ Toks[1] \notin {BO, SG}

C8_State ==
    IsOtherText =>
        (Unchanged /\ open = prev.open /\ pc # "raised" /\ exc = "none")

C8_Step ==
    (/\ IsOtherText
     /\ prev.open # <<>>
     /\ n' = n + 1
     /\ line_arrays[line'] # <<>>
     /\ line_arrays[line'][1] = SG
     /\ SignalDefinition(line_arrays[line']).exc = "none") =>
        /\ pc' # "raised"
        /\ prev.open[1] \in DOMAIN can_db'
        /\ line_arrays[line'][2] \in DOMAIN can_db'[prev.open[1]].species
        /\ can_db'[prev.open[1]].species[line_arrays[line'][2]]
               = SignalDefinition(line_arrays[line']).val

\* C8: a non-blank line whose first token is neither BO_ nor SG_ leaves
\* can_db, Flag and current_BO as they were and raises nothing, and an SG_
\* line read right after it is stored under the message that was open before
\* it.
C8_OtherLineIgnored == [](C8_State) /\ [][C8_Step]_vars

\* An unrecognized line read while a message with a signal was open.
C8_Witness ==
    /\ IsOtherText
    /\ prev.open # <<>>
    /\ prev.Flag
    /\ prev.can_db[prev.open[1]].species # EmptyDict
    /\ pc = "loop"

----------------------------------------------------------------------------
(* C9 *)

\* C9: the keys of can_db are the arbitration ids of the BO_ lines processed
\* so far; a BO_ line adds its id and no other key, and no other line adds or
\* removes a key.
C9_KeysAreMessageIds ==
    /\ DOMAIN can_db = bo_ids
    /\ WellFormedMessage =>
           /\ pc # "raised"
           /\ DOMAIN can_db = DOMAIN prev.can_db \cup {int(Toks[2]).val}
    /\ (LineRead /\ ~StartsWith(BO)) => DOMAIN can_db = DOMAIN prev.can_db

\* Two ids are keys, and the last line read was an SG_ line of the second.
C9_Witness ==
    /\ bo_ids = {100, 200}
    /\ SignalWhileOpen
    /\ WellFormedSignal
    /\ n = MaxLines
    /\ pc = "returned"

----------------------------------------------------------------------------
(* C10 *)

\* C10: an SG_ line whose fields evaluate and whose name is already in the
\* open message's signal mapping raises nothing; afterwards the mapping has
\* the same names, the line's definition under its name, and every other
\* signal as before.
C10_DuplicateSignalOverwrites ==
    (/\ SignalWhileOpen
     /\ WellFormedSignal
     /\ prev.open[1] \in DOMAIN prev.can_db
     /\ Toks[2] \in DOMAIN prev.can_db[prev.open[1]].species) =>
        LET id == prev.open[1]
            old == prev.can_db[id].species
        IN  /\ pc # "raised"
            /\ id \in DOMAIN can_db
            /\ DOMAIN can_db[id].species = DOMAIN old
            /\ can_db[id].species[Toks[2]] = SignalDefinition(Toks).val
            /\ \A name \in DOMAIN old \ {Toks[2]} :
                   can_db[id].species[name] = old[name]

\* A second definition replaced the first while the message had another
\* signal too.
C10_Witness ==
    /\ SignalWhileOpen
    /\ WellFormedSignal
    /\ prev.open[1] \in DOMAIN prev.can_db
    /\ Toks[2] \in DOMAIN prev.can_db[prev.open[1]].species
    /\ Cardinality(DOMAIN prev.can_db[prev.open[1]].species) = 2
    /\ prev.can_db[prev.open[1]].species[Toks[2]] # SignalDefinition(Toks).val
    /\ pc = "loop"

----------------------------------------------------------------------------
(* C11 *)

\* The last line read is a BO_ line of fewer than 5 tokens, or an SG_ line of
\* fewer than 7 tokens met while a message was open.
ShortLine ==
    \/ StartsWith(BO) /\ Len(Toks) < 5
    \/ SignalWhileOpen /\ Len(Toks) < 7

\* C11: a recognized line with fewer tokens than its type requires makes the
\* parse fail: an exception leaves get_can, can_db is as it was before the
\* line and nothing is returned.
C11_ShortLineFails ==
    ShortLine =>
        /\ pc = "raised"
        /\ exc # "none"
        /\ can_db = prev.can_db
        /\ ret = <<>>

\* An SG_ line that lacks only its description, met while a message with a
\* signal was open.
C11_Witness ==
    /\ SignalWhileOpen
    /\ Len(Toks) = 6
    /\ prev.can_db[prev.open[1]].species # EmptyDict
    /\ pc = "raised"
    /\ exc = "IndexError"

----------------------------------------------------------------------------
(* The bit-range field on its own: BitRangeSpec gives the SG_ branch one line
   whose bit-range field is written from two integers and a separator *)

\* Largest magnitude of the integers written in a bit-range field.
MaxBit == 12

BitValues == (-MaxBit)..MaxBit

DigitChar(d) == <<"0", "1", "2", "3", "4", "5", "6", "7", "8", "9">>[d + 1]

RECURSIVE NatText(_)
NatText(i) ==
    IF i < 10 THEN <<DigitChar(i)>>
    ELSE Append(NatText(i \div 10), DigitChar(i % 10))

\* The decimal text of an integer.
IntText(i) == IF i < 0 THEN <<"-">> \o NatText(-i) ELSE NatText(i)

BitRangeFields == [end_bit : BitValues, sep : {"@", "|"}, length : BitValues]

\* "<end_bit><sep><length>"
FieldText(f) == IntText(f.end_bit) \o <<f.sep>> \o IntText(f.length)

\* An SG_ line with the bit-range field f and nothing else of note.
FieldLine(f) ==
    SignalLine(<<"A">>, FieldText(f), <<"1">>, <<"0">>, <<"0">>, <<"1">>, <<"d">>)

InitBitRange ==
    /\ InitLocals
    /\ dbc_file = <<>>
    /\ field \in BitRangeFields
    /\ parsed = <<>>

\* The SG_ branch evaluates the line of the field.
ParseBitRange ==
    /\ parsed = <<>>
    /\ parsed' = <<SignalDefinition(split(FieldLine(field)))>>
    /\ UNCHANGED <<can_db, Flag, current_BO, pc, exc, ret, n, line, prev, open,
                   bo_ids, dbc_file, field>>

NextBitRange == ParseBitRange

BitRangeSpec == InitBitRange /\ [][NextBitRange]_vars

----------------------------------------------------------------------------
(* C12 *)

OtherSep(c) == IF c = "@" THEN "|" ELSE "@"

\* C12: for integers e and l, the field "e@l" and the field "e|l" both parse
\* without error to end_bit = e and length = l, and to the same definition.
C12_BothSeparatorsParse ==
    parsed # <<>> =>
        /\ parsed[1].exc = "none"
        /\ parsed[1].val.end_bit = field.end_bit
        /\ parsed[1].val.length = field.length
        /\ parsed[1] =
               SignalDefinition(split(FieldLine([field EXCEPT !.sep = OtherSep(@)])))

\* 12@4 was parsed to end_bit 12 and length 4.
C12_Witness ==
    /\ parsed # <<>>
    /\ field = [end_bit |-> 12, sep |-> "@", length |-> 4]
    /\ parsed[1].val.end_bit = 12
    /\ parsed[1].val.length = 4

----------------------------------------------------------------------------
(* C13 *)

\* The text of an integer: an optional sign, then digits.
IsIntegerText(s) == IsDigits(Unsigned(s))

SepPositions(s) == { i \in 1..Len(s) : s[i] \in {"@", "|"} }

\* The text has no separator, or the text before its first separator or the
\* text from there to the next separator (or the end) is no integer.
BadBitRange(s) ==
    IF SepPositions(s) = {} THEN TRUE
    ELSE LET i == CHOOSE p \in SepPositions(s) : \A q \in SepPositions(s) : p <= q
             later == { q \in SepPositions(s) : q > i } \cup {Len(s) + 1}
             j == CHOOSE p \in later : \A q \in later : p <= q
         IN  \/ ~IsIntegerText(SubSeq(s, 1, i - 1))
             \/ ~IsIntegerText(SubSeq(s, i + 1, j - 1))

\* The last line read is an SG_ line met while a message was open, with a
\* bit-range field that is badly formed.
BadBitRangeLine ==
    /\ SignalWhileOpen
    /\ Len(Toks) >= 4
    /\ BadBitRange(Toks[4])

\* C13: an SG_ line processed while a message is open whose bit-range field
\* has neither '@' nor '|', or whose parts around the separator are not
\* integers, makes the parse fail and adds no signal.
C13_BadBitRangeFails ==
    BadBitRangeLine =>
        /\ pc = "raised"
        /\ exc # "none"
        /\ can_db = prev.can_db
        /\ ret = <<>>

\* A complete SG_ line whose bit-range field has no separator, met while a
\* message was open.
C13_Witness ==
    /\ BadBitRangeLine
    /\ Len(Toks) = 7
    /\ SepPositions(Toks[4]) = {}
    /\ pc = "raised"
    /\ exc = "IndexError"

----------------------------------------------------------------------------
(* C14 *)

\* C14: whenever Flag is true, current_BO is bound to an arbitration id that
\* is a key of can_db, and no line ever fails on the lookup can_db[current_BO]
\* (no KeyError, no unbound current_BO), whatever lines came before the first
\* BO_ line.
C14_OpenMessageIsKey ==
    /\ Flag => (current_BO.state = "int" /\ current_BO.id \in DOMAIN can_db)
    /\ exc \notin {"KeyError", "UnboundLocalError"}

\* The first BO_ line of a file that began with a blank line: current_BO was
\* None and can_db empty before it, and a message is open after it.
C14_Witness ==
    /\ StartsWith(BO)
    /\ prev.current_BO = None
    /\ prev.can_db = EmptyDict
    /\ ~prev.Flag
    /\ Flag
    /\ pc = "loop"

----------------------------------------------------------------------------
(* The loop over a file fixed in advance: FileSpec opens a file of at most
   MaxFile lines and runs the same branches on its lines, in order *)

\* Longest file of FileSpec, in lines.
MaxFile == 2

\* The lines the files of FileSpec are made of: one of each kind, well formed
\* and not.
FileLines ==
    BlankLines \cup OtherLines \cup
    { MessageLine(<<"1", "0", "0">>, <<"E">>, <<"8">>, <<"P">>),
      MessageLine(<<"2", "0", "0">>, <<"B">>, <<"4">>, <<"C">>),
      MessageLine(<<"1", "x">>, <<"E">>, <<"8">>, <<"P">>),
      SignalLine(<<"A">>, <<"7", "|", "8">>, <<"1">>, <<"-", "4", "0">>, <<"0">>, <<"1">>, <<"d">>),
      SignalLine(<<"A">>, <<"7", "8">>, <<"1">>, <<"0">>, <<"0">>, <<"1">>, <<"d">>) }

Files == UNION { [1..k -> FileLines] : k \in 0..MaxFile }

FileInit ==
    /\ InitLocals
    /\ dbc_file \in Files
    /\ field = NoField
    /\ parsed = <<>>

\* for line in dbc_file: the line handed to the loop body is the next line of
\* the file.
FileLine ==
    /\ n < Len(dbc_file)
    /\ line' = dbc_file[n + 1]

FileBlankLine == FileLine /\ BlankLine

FileSignalEntry == FileLine /\ SignalEntry

FileMessageStart == FileLine /\ MessageStart

FileOtherLine == FileLine /\ OtherLine

\* The for statement finds no further line.
FileEnd ==
    /\ n = Len(dbc_file)
    /\ EndOfFile

FileNext ==
    \/ FileBlankLine
    \/ FileSignalEntry
    \/ FileMessageStart
    \/ FileOtherLine
    \/ FileEnd

\* The interpreter keeps running the loop: a step that can be taken is taken.
FileSpec == FileInit /\ [][FileNext]_vars /\ WF_vars(FileNext)

----------------------------------------------------------------------------
(* C15 *)

Done == pc \in {"returned", "raised"}

C15_State ==
    /\ n <= Len(dbc_file)
    /\ LineRead => line = dbc_file[n]
    /\ pc = "returned" => n = Len(dbc_file)
    /\ pc = "raised" => n >= 1

C15_Step ==
    /\ dbc_file' = dbc_file
    /\ pc = "loop"
    /\ n' = n + 1 \/ (n' = n /\ pc' = "returned")

\* C15: the parse of a finite file terminates: every step of the loop hands
\* the next line of the file to the body, one position further each time and
\* never back; the parse is done when the file is exhausted (returned, with
\* every line read) or at the first line that raises, and it always gets
\* there.
C15_Terminates == [](C15_State) /\ [][C15_Step]_vars /\ <>[](Done)

\* A line raised while lines of the file were still unread.
C15_Witness ==
    /\ pc = "raised"
    /\ n >= 1
    /\ n < Len(dbc_file)

====
